---- MODULE Spec2Model ----
(***************************************************************************)
(* Upload handlers of the video-hosting backend:                           *)
(*   src/src/api/videos.ts      handlerUploadVideo, getVideoAspectRatio,   *)
(*                              processVideoForFastStart                   *)
(*   src/src/api/thumbnails.ts  handlerUploadThumbnail (filesystem policy  *)
(*                              and inline data-URL policy)                *)
(*   src/unnamed/part_000       handlerUploadThumbnail (in-memory policy)  *)
(* One video-upload invocation and one thumbnail-upload invocation run on  *)
(* the same event loop; every await is a point where the other invocation  *)
(* may run.                                                                *)
(***************************************************************************)
EXTENDS Integers, Sequences, FiniteSets, TLC

VARIABLES
    db,                \* cfg.db: the persisted video records, by id
    disk,              \* files present under cfg.filepathRoot / cfg.assetsRoot
    s3,                \* keys of the objects stored by cfg.s3Client
    videoThumbnails,   \* part_000: the process-local thumbnail map
    policy,            \* which handlerUploadThumbnail revision is deployed
    vpc,               \* handlerUploadVideo: position of the invocation
    vreq,              \* handlerUploadVideo: the request being served
    vVideo,            \* handlerUploadVideo: the local `video`
    processedFilePath, \* handlerUploadVideo: the local `processedFilePath`
    probe,             \* what ffprobe answered (exit code and stdout)
    aspectRatio,       \* handlerUploadVideo: the local `aspectRatio`
    verr,              \* handlerUploadVideo: the exception in flight
    vresp,             \* handlerUploadVideo: the response sent
    vlog,              \* history: the stages the invocation has run and whether each succeeded
    tryError,          \* history: the exception the try block threw
    removed,           \* history: the paths the invocation's rm calls removed, in order
    created,           \* history: temp files the invocation's stages created
    tpc,               \* handlerUploadThumbnail: position of the invocation
    treq,              \* handlerUploadThumbnail: the request being served
    tVideo,            \* handlerUploadThumbnail: the local `video`
    tresp              \* handlerUploadThumbnail: the response sent

sharedVars == <<db, disk, s3, videoThumbnails, policy>>
videoVars == <<vpc, vreq, vVideo, processedFilePath, probe, aspectRatio, verr, vresp,
               vlog, tryError, removed, created>>
thumbVars == <<tpc, treq, tVideo, tresp>>
vars == <<db, disk, s3, videoThumbnails, policy,
          vpc, vreq, vVideo, processedFilePath, probe, aspectRatio, verr, vresp,
          vlog, tryError, removed, created,
          tpc, treq, tVideo, tresp>>

None == "none"

\* the empty path or URL: an unset string
NoPath == <<>>

(***************************************************************************)
(* IEEE-754 binary64 arithmetic on non-negative values, as getVideoAspect- *)
(* Ratio uses it.  A value is the set of the exponents of its one bits:    *)
(* {0, -1} is 1.5.  A double keeps Precision significant bits; division    *)
(* and subtraction round to nearest, ties to even.                         *)
(***************************************************************************)
Precision == 53

Max(S) == CHOOSE x \in S : \A y \in S : y <= x

Min(S) == CHOOSE x \in S : \A y \in S : x <= y

RECURSIVE Log2(_)
\* floor(log2 n), n >= 1
Log2(n) == IF n < 2 THEN 0 ELSE 1 + Log2(n \div 2)

RECURSIVE Shift(_, _)
\* the least k with w * 2^k >= h
Shift(w, h) == IF w >= h THEN 0 ELSE 1 + Shift(2 * w, h)

\* the exponent of the leading bit of w / h
Exponent(w, h) == IF w >= h THEN Log2(w \div h) ELSE 0 - Shift(w, h)

\* the one bits of the natural number n
IntBits(n) == IF n = 0 THEN {} ELSE {i \in 0..Log2(n) : (n \div (2 ^ i)) % 2 = 1}

\* binary digits produced by one division step
Chunk == 2 ^ 8

ChunkBits == Log2(Chunk)

RECURSIVE FracBits(_, _, _, _)
\* long division of rem / h (rem < h), ChunkBits binary digits at a time: the
\* one bits at the exponents from i down to lo or a little below, and the
\* remainder left below them
FracBits(rem, h, i, lo) ==
    IF i < lo THEN [bits |-> {}, rem |-> rem]
    ELSE LET n == rem * Chunk
             rest == FracBits(n % h, h, i - ChunkBits, lo)
         IN  [bits |-> {i - (ChunkBits - 1) + k : k \in IntBits(n \div h)} \cup rest.bits,
              rem |-> rest.rem]

\* S plus 2^i: the carry stops at the first zero bit at or above i
Inc(S, i) ==
    LET j == Min({k \in i..(Max(S \cup {i}) + 1) : k \notin S})
    IN  {k \in S : k < i \/ k > j} \cup {j}

\* round the exact value S (plus something below its lowest bit when sticky)
\* to Precision significant bits, to nearest, ties to even
RoundBits(S, sticky) ==
    IF S = {} THEN {}
    ELSE LET e == Max(S)
             ulp == e - (Precision - 1)
             keep == {i \in S : i >= ulp}
             half == (ulp - 1) \in S
             below == sticky \/ (\E i \in S : i < ulp - 1)
         IN  IF half /\ (below \/ ulp \in S) THEN Inc(keep, ulp) ELSE keep

\* the double w / h, for integers w > 0, h > 0
FDiv(w, h) ==
    LET e == Exponent(w, h)
        f == FracBits(w % h, h, -1, e - Precision)
    IN  RoundBits(IntBits(w \div h) \cup f.bits, f.rem # 0)

\* x < y
FLess(x, y) == x # y /\ Max((x \ y) \cup (y \ x)) \in y

\* the borrow that the subtraction x - y takes into exponent i
Borrow(x, y, i) == IF FLess({j \in x : j < i}, {j \in y : j < i}) THEN 1 ELSE 0

\* the one bits of the exact difference x - y, for x >= y
SubBits(x, y) ==
    {i \in Min(x \cup y)..Max(x \cup y) :
        ((IF i \in x THEN 1 ELSE 0) - (IF i \in y THEN 1 ELSE 0) - Borrow(x, y, i)) % 2 = 1}

\* Math.abs(x - y): the double nearest to the exact difference
FAbsDiff(x, y) ==
    IF x = y THEN {}
    ELSE LET big == IF FLess(x, y) THEN y ELSE x
             small == IF FLess(x, y) THEN x ELSE y
         IN  RoundBits(SubBits(big, small), FALSE)

\* x <= y
FLeq(x, y) == x = y \/ FLess(x, y)


(***************************************************************************)
(* Values of the requests and of the collaborators' answers.               *)
(***************************************************************************)
Users == {"A", "B"}

\* the record getVideo answers with when the row is absent (undefined)
NoVideo == [id |-> "", userID |-> "", videoURL |-> NoPath, thumbnailURL |-> NoPath]

NoPayload == [kind |-> "absent", size |-> 0, type |-> <<>>, name |-> <<>>]

NoReq == [videoId |-> "", token |-> "", payload |-> NoPayload]

NoResp == [status |-> 0, error |-> None, body |-> NoVideo]

NoProbe == [exitCode |-> 0, stdout |-> [parses |-> FALSE, streams |-> <<>>]]

MAX_UPLOAD_SIZE == 2 ^ 30

THUMB_MAX_UPLOAD_SIZE == 10 * (2 ^ 20)

\* formData.get(field): nothing, a string, or a File with size, type and name;
\* a type is kept as its segments around "/", a name as <<stem, extension>>
Payloads(sizes, types) ==
    {NoPayload, [kind |-> "string", size |-> 0, type |-> <<>>, name |-> <<>>]}
    \cup {[kind |-> "file", size |-> sz, type |-> ty, name |-> <<"upload", ".mp4">>] :
            sz \in sizes, ty \in types}

Requests(payloads) ==
    [videoId : {"", "v1", "v2"}, token : Users \cup {"bad"}, payload : payloads]

VideoRequests ==
    Requests(Payloads({MAX_UPLOAD_SIZE, MAX_UPLOAD_SIZE + 1},
                      {<<"video", "mp4">>, <<"video", "webm">>}))

ThumbRequests ==
    Requests(Payloads({THUMB_MAX_UPLOAD_SIZE, THUMB_MAX_UPLOAD_SIZE + 1},
                      {<<"image", "png">>, <<"image">>}))

\* randomBytes(16).toString("hex") of the video invocation, randomBytes(32) of
\* the thumbnail invocation: distinct with overwhelming probability
VideoFileID == "f1"

ThumbFileID == "f2"

\* HTTP status of a thrown error
StatusOf(error) ==
    CASE error = "BadRequest" -> 400
      [] error = "Unauthorized" -> 401
      [] error = "Forbidden" -> 403
      [] error = "NotFound" -> 404
      [] OTHER -> 500

ErrorResponse(error) == [status |-> StatusOf(error), error |-> error, body |-> NoVideo]

respondWithJSON(status, payload) == [status |-> status, error |-> None, body |-> payload]

\* validateJWT(getBearerToken(headers)): the user of a valid token
validateJWT(token) == IF token \in Users THEN token ELSE "Unauthorized"

getVideo(d, id) == IF \E row \in d : row.id = id THEN CHOOSE row \in d : row.id = id ELSE NoVideo

\* UPDATE of the whole row whose id is video.id
updateVideo(d, video) == {IF row.id = video.id THEN video ELSE row : row \in d}

path_extname(name) == IF Len(name) >= 2 THEN name[2] ELSE ""

(***************************************************************************)
(* getVideoAspectRatio, videos.ts 90-136.                                  *)
(***************************************************************************)
\* a JSON value of ffprobe's stream entry: a number, null, a number too large
\* for a double, or no such key
JNum(n) == [t |-> "number", v |-> n]

JNull == [t |-> "null", v |-> 0]

JHuge == [t |-> "huge", v |-> 0]

JMissing == [t |-> "undefined", v |-> 0]

\* Number(x): null is 0, undefined is NaN, an overflowing literal is Infinity
Number(x) ==
    CASE x.t = "number" -> [finite |-> TRUE, v |-> x.v]
      [] x.t = "null" -> [finite |-> TRUE, v |-> 0]
      [] OTHER -> [finite |-> FALSE, v |-> 0]

landscape == FDiv(16, 9)

portrait == FDiv(9, 16)

tolerance == FDiv(1, 50)

\* lines 125-135
classify(width, height) ==
    LET ratio == FDiv(width, height)
    IN  IF FLeq(FAbsDiff(ratio, landscape), tolerance) THEN "landscape"
        ELSE IF FLeq(FAbsDiff(ratio, portrait), tolerance) THEN "portrait"
        ELSE "other"

AspectClasses == {"landscape", "portrait", "other"}

\* the aspect class, or the error thrown
getVideoAspectRatio(p) ==
    IF p.exitCode # 0 THEN "ffprobe failed"
    ELSE IF ~p.stdout.parses THEN "SyntaxError"
    ELSE LET stream == IF Len(p.stdout.streams) >= 1 THEN p.stdout.streams[1]
                       ELSE [width |-> JMissing, height |-> JMissing]
             width == Number(stream.width)
             height == Number(stream.height)
         IN  IF ~width.finite \/ ~height.finite \/ width.v <= 0 \/ height.v <= 0
             THEN "ffprobe did not return valid width/height"
             ELSE classify(width.v, height.v)

ProbeOf(exitCode, parses, streams) ==
    [exitCode |-> exitCode, stdout |-> [parses |-> parses, streams |-> streams]]

Stream(w, h) == <<[width |-> w, height |-> h]>>

\* what ffprobe may answer
ProbeOutcomes(dims) ==
    {ProbeOf(1, TRUE, <<>>), ProbeOf(0, FALSE, <<>>), ProbeOf(0, TRUE, <<>>)}
    \cup {ProbeOf(c, TRUE, Stream(w, h)) : c \in {0, 1}, w \in dims, h \in dims}


(***************************************************************************)
(* handlerUploadVideo, videos.ts 15-88.                                    *)
(***************************************************************************)
\* lines 16-33: the error thrown before the payload is read, or None
CheckRequest(req, d) ==
    IF req.videoId = "" THEN "BadRequest"
    ELSE IF validateJWT(req.token) \notin Users THEN "Unauthorized"
    ELSE IF getVideo(d, req.videoId) = NoVideo THEN "NotFound"
    ELSE IF getVideo(d, req.videoId).userID # validateJWT(req.token) THEN "Forbidden"
    ELSE None

\* ValidateVideoFile without the media-type check of lines 46-48
ValidateVideoFileAnyType(videoFile) ==
    IF videoFile.kind # "file" THEN "BadRequest"
    ELSE IF videoFile.size > MAX_UPLOAD_SIZE THEN "BadRequest"
    ELSE None

\* lines 38-48: the error thrown for the payload, or None
ValidateVideoFile(videoFile) ==
    IF videoFile.kind # "file" THEN "BadRequest"
    ELSE IF videoFile.size > MAX_UPLOAD_SIZE THEN "BadRequest"
    ELSE IF videoFile.type # <<"video", "mp4">> THEN "BadRequest"
    ELSE None

\* lines 51-54
tempFilePath == <<VideoFileID, path_extname(vreq.payload.name)>>

\* line 139
outputFilePath(inputFilePath) == inputFilePath \o <<".processed">>

\* how ffmpeg may end: its exit code, and whether it left an output file
RemuxOutcomes ==
    {[exitCode |-> 0, wroteOutput |-> TRUE],
     [exitCode |-> 1, wroteOutput |-> TRUE],
     [exitCode |-> 1, wroteOutput |-> FALSE]}

\* lines 138-168: the path returned, or NoPath when it throws
processVideoForFastStart(inputFilePath, out) ==
    IF out.exitCode # 0 THEN NoPath ELSE outputFilePath(inputFilePath)

\* line 64
s3Key == <<aspectRatio, VideoFileID, ".mp4">>

\* line 73
videoURL == <<"https", "s3Bucket", "s3Region">> \o s3Key

\* an exception leaves the try block: control goes to the finally block
ThrowInTry(error) ==
    /\ verr' = error
    /\ tryError' = error
    /\ vpc' = "rmTemp"

\* lines 16-35
V_Start(req) ==
    /\ vpc = "idle"
    /\ vreq' = req
    /\ IF CheckRequest(req, db) # None
       THEN /\ vresp' = ErrorResponse(CheckRequest(req, db))
            /\ vpc' = "done"
            /\ UNCHANGED vVideo
       ELSE /\ vVideo' = getVideo(db, req.videoId)
            /\ vpc' = "formData"
            /\ UNCHANGED vresp
    /\ UNCHANGED <<processedFilePath, probe, aspectRatio, verr, vlog, tryError, removed, created>>
    /\ UNCHANGED <<sharedVars, thumbVars>>

\* lines 36-55
V_Validate ==
    /\ vpc = "formData"
    /\ IF ValidateVideoFile(vreq.payload) # None
       THEN /\ vresp' = ErrorResponse(ValidateVideoFile(vreq.payload))
            /\ vpc' = "done"
       ELSE /\ vpc' = "write"
            /\ UNCHANGED vresp
    /\ UNCHANGED <<vreq, vVideo, processedFilePath, probe, aspectRatio, verr, vlog, tryError,
                   removed, created>>
    /\ UNCHANGED <<sharedVars, thumbVars>>

\* how Bun.write may end: done, failed leaving a partial file, failed leaving none
WriteOutcomes == {"ok", "failed partial", "failed no file"}

\* line 59
V_Stage(outcome) ==
    /\ vpc = "write"
    /\ vlog' = Append(vlog, <<"write", outcome = "ok">>)
    /\ IF outcome = "failed no file"
       THEN UNCHANGED <<disk, created>>
       ELSE /\ disk' = disk \cup {tempFilePath}
            /\ created' = created \cup {tempFilePath}
    /\ IF outcome = "ok"
       THEN /\ vpc' = "remux"
            /\ UNCHANGED <<verr, tryError>>
       ELSE ThrowInTry("write failed")
    /\ UNCHANGED <<vreq, vVideo, processedFilePath, probe, aspectRatio, vresp, removed>>
    /\ UNCHANGED <<db, s3, videoThumbnails, policy, thumbVars>>

\* V_Remux without the exit-code check of lines 163-165
V_RemuxIgnoringExit(out) ==
    /\ vpc = "remux"
    /\ vlog' = Append(vlog, <<"remux", out.exitCode = 0>>)
    /\ IF out.wroteOutput
       THEN /\ disk' = disk \cup {outputFilePath(tempFilePath)}
            /\ created' = created \cup {outputFilePath(tempFilePath)}
       ELSE UNCHANGED <<disk, created>>
    /\ processedFilePath' = outputFilePath(tempFilePath)
    /\ vpc' = "probe"
    /\ UNCHANGED <<verr, tryError>>
    /\ UNCHANGED <<vreq, vVideo, probe, aspectRatio, vresp, removed>>
    /\ UNCHANGED <<db, s3, videoThumbnails, policy, thumbVars>>

\* line 60
V_Remux(out) ==
    /\ vpc = "remux"
    /\ vlog' = Append(vlog, <<"remux", out.exitCode = 0>>)
    /\ IF out.wroteOutput
       THEN /\ disk' = disk \cup {outputFilePath(tempFilePath)}
            /\ created' = created \cup {outputFilePath(tempFilePath)}
       ELSE UNCHANGED <<disk, created>>
    /\ IF processVideoForFastStart(tempFilePath, out) = NoPath
       THEN /\ ThrowInTry("ffmpeg faststart failed")
            /\ UNCHANGED processedFilePath
       ELSE /\ processedFilePath' = processVideoForFastStart(tempFilePath, out)
            /\ vpc' = "probe"
            /\ UNCHANGED <<verr, tryError>>
    /\ UNCHANGED <<vreq, vVideo, probe, aspectRatio, vresp, removed>>
    /\ UNCHANGED <<db, s3, videoThumbnails, policy, thumbVars>>

\* lines 63-64
V_Probe(p) ==
    /\ vpc = "probe"
    /\ vlog' = Append(vlog, <<"probe", getVideoAspectRatio(p) \in AspectClasses>>)
    /\ probe' = p
    /\ IF getVideoAspectRatio(p) \in AspectClasses
       THEN /\ aspectRatio' = getVideoAspectRatio(p)
            /\ vpc' = "s3"
            /\ UNCHANGED <<verr, tryError>>
       ELSE /\ ThrowInTry(getVideoAspectRatio(p))
            /\ UNCHANGED aspectRatio
    /\ UNCHANGED <<vreq, vVideo, processedFilePath, vresp, removed, created>>
    /\ UNCHANGED <<sharedVars, thumbVars>>

\* V_S3Write whose rejection is not awaited: the update follows a failed write
V_S3WriteUnawaited(ok) ==
    /\ vpc = "s3"
    /\ vlog' = Append(vlog, <<"s3", ok>>)
    /\ s3' = IF ok THEN s3 \cup {s3Key} ELSE s3
    /\ vpc' = "update"
    /\ UNCHANGED <<verr, tryError>>
    /\ UNCHANGED <<vreq, vVideo, processedFilePath, probe, aspectRatio, vresp, removed, created>>
    /\ UNCHANGED <<db, disk, videoThumbnails, policy, thumbVars>>

\* lines 67-70
V_S3Write(ok) ==
    /\ vpc = "s3"
    /\ vlog' = Append(vlog, <<"s3", ok>>)
    /\ IF ok
       THEN /\ s3' = s3 \cup {s3Key}
            /\ vpc' = "update"
            /\ UNCHANGED <<verr, tryError>>
       ELSE /\ ThrowInTry("s3 write failed")
            /\ UNCHANGED s3
    /\ UNCHANGED <<vreq, vVideo, processedFilePath, probe, aspectRatio, vresp, removed, created>>
    /\ UNCHANGED <<db, disk, videoThumbnails, policy, thumbVars>>

\* lines 73-76
V_Update(ok) ==
    /\ vpc = "update"
    /\ vlog' = Append(vlog, <<"update", ok>>)
    /\ vVideo' = [vVideo EXCEPT !.videoURL = videoURL]
    /\ IF ok
       THEN /\ db' = updateVideo(db, vVideo')
            /\ vpc' = "rmTemp"
            /\ UNCHANGED <<verr, tryError>>
       ELSE /\ ThrowInTry("update failed")
            /\ UNCHANGED db
    /\ UNCHANGED <<vreq, processedFilePath, probe, aspectRatio, vresp, removed, created>>
    /\ UNCHANGED <<disk, s3, videoThumbnails, policy, thumbVars>>

\* line 79: rm without `force` rejects with ENOENT when the file is absent, and
\* an exception thrown in a finally block replaces the one in flight
V_RmTemp ==
    /\ vpc = "rmTemp"
    /\ vlog' = Append(vlog, <<"rm temp", tempFilePath \in disk>>)
    /\ IF tempFilePath \in disk
       THEN /\ disk' = disk \ {tempFilePath}
            /\ removed' = Append(removed, tempFilePath)
            /\ vpc' = IF processedFilePath # NoPath THEN "rmProcessed" ELSE "return"
            /\ UNCHANGED verr
       ELSE /\ verr' = "ENOENT"
            /\ vpc' = "return"
            /\ UNCHANGED <<disk, removed>>
    /\ UNCHANGED <<vreq, vVideo, processedFilePath, probe, aspectRatio, vresp, tryError, created>>
    /\ UNCHANGED <<db, s3, videoThumbnails, policy, thumbVars>>

\* lines 80-82
V_RmProcessed ==
    /\ vpc = "rmProcessed"
    /\ vlog' = Append(vlog, <<"rm processed", processedFilePath \in disk>>)
    /\ IF processedFilePath \in disk
       THEN /\ disk' = disk \ {processedFilePath}
            /\ removed' = Append(removed, processedFilePath)
            /\ UNCHANGED verr
       ELSE /\ verr' = "ENOENT"
            /\ UNCHANGED <<disk, removed>>
    /\ vpc' = "return"
    /\ UNCHANGED <<vreq, vVideo, processedFilePath, probe, aspectRatio, vresp, tryError, created>>
    /\ UNCHANGED <<db, s3, videoThumbnails, policy, thumbVars>>

\* the end of the finally block, and lines 85-87
V_Return ==
    /\ vpc = "return"
    /\ vresp' = IF verr # None THEN ErrorResponse(verr)
                ELSE respondWithJSON(200, getVideo(db, vVideo.id))
    /\ vpc' = "done"
    /\ UNCHANGED <<vreq, vVideo, processedFilePath, probe, aspectRatio, verr, vlog, tryError,
                   removed, created>>
    /\ UNCHANGED <<sharedVars, thumbVars>>


(***************************************************************************)
(* handlerUploadThumbnail: part_000 43-94 keeps the bytes in the process   *)
(* ("memory"), thumbnails.ts 15-73 writes them under cfg.assetsRoot        *)
(* ("file"), thumbnails.ts 88-135 embeds them in a data URL ("dataurl").   *)
(* The three revisions share everything up to the ownership check.         *)
(***************************************************************************)
Policies == {"memory", "file", "dataurl"}

\* thumbnails.ts 16-22: the error thrown before the payload is read, or None
CheckThumbnailRequest(req) ==
    IF req.videoId = "" THEN "BadRequest"
    ELSE IF validateJWT(req.token) \notin Users THEN "Unauthorized"
    ELSE None

\* thumbnails.ts 29-37: the error thrown for the payload, or None
ValidateThumbnailFile(imageFile) ==
    IF imageFile.kind # "file" THEN "BadRequest"
    ELSE IF imageFile.size > THUMB_MAX_UPLOAD_SIZE THEN "BadRequest"
    ELSE None

\* thumbnails.ts 43-50: the error thrown for the resource, or None
CheckThumbnailOwner(req, d) ==
    IF getVideo(d, req.videoId) = NoVideo THEN "NotFound"
    ELSE IF getVideo(d, req.videoId).userID # validateJWT(req.token) THEN "Forbidden"
    ELSE None

\* thumbnails.ts 52: mediaType.split("/")[1], "" when there is no second segment
fileExtension(mediaType) == IF Len(mediaType) >= 2 THEN mediaType[2] ELSE ""

\* thumbnails.ts 57-58
thumbFilePath == <<ThumbFileID, fileExtension(treq.payload.type)>>

\* part_000 86, thumbnails.ts 65, thumbnails.ts 126
thumbnailURL ==
    CASE policy = "memory" -> <<"http", "api/thumbnails", treq.videoId>>
      [] policy = "file" -> <<"http", "assets">> \o thumbFilePath
      [] policy = "dataurl" -> <<"data">> \o treq.payload.type \o <<"base64">>

\* thumbnails.ts 16-26
T_Start(req) ==
    /\ tpc = "idle"
    /\ treq' = req
    /\ IF CheckThumbnailRequest(req) # None
       THEN /\ tresp' = ErrorResponse(CheckThumbnailRequest(req))
            /\ tpc' = "done"
       ELSE /\ tpc' = "formData"
            /\ UNCHANGED tresp
    /\ UNCHANGED <<tVideo, sharedVars, videoVars>>

\* thumbnails.ts 27-41
T_Validate ==
    /\ tpc = "formData"
    /\ IF ValidateThumbnailFile(treq.payload) # None
       THEN /\ tresp' = ErrorResponse(ValidateThumbnailFile(treq.payload))
            /\ tpc' = "done"
       ELSE /\ tpc' = "arrayBuffer"
            /\ UNCHANGED tresp
    /\ UNCHANGED <<treq, tVideo, sharedVars, videoVars>>

\* the record update and the response: part_000 87-93, thumbnails.ts 66-72 and
\* 128-134
T_Publish(video, ok) ==
    /\ tVideo' = [video EXCEPT !.thumbnailURL = thumbnailURL]
    /\ tpc' = "done"
    /\ IF ok
       THEN /\ db' = updateVideo(db, tVideo')
            /\ tresp' = respondWithJSON(200, getVideo(db', tVideo'.id))
       ELSE /\ tresp' = ErrorResponse("update failed")
            /\ UNCHANGED db

\* thumbnails.ts 43-60 and 115-134, part_000 70-93
T_Resolve(ok) ==
    /\ tpc = "arrayBuffer"
    /\ IF CheckThumbnailOwner(treq, db) # None
       THEN /\ tresp' = ErrorResponse(CheckThumbnailOwner(treq, db))
            /\ tpc' = "done"
            /\ UNCHANGED <<tVideo, db, videoThumbnails>>
       ELSE CASE policy = "memory" ->
                    /\ videoThumbnails' =
                           {e \in videoThumbnails : e.videoId # treq.videoId}
                           \cup {[videoId |-> treq.videoId, mediaType |-> treq.payload.type]}
                    /\ T_Publish(getVideo(db, treq.videoId), ok)
              [] policy = "dataurl" ->
                    /\ T_Publish(getVideo(db, treq.videoId), ok)
                    /\ UNCHANGED videoThumbnails
              [] policy = "file" ->
                    /\ tVideo' = getVideo(db, treq.videoId)
                    /\ IF fileExtension(treq.payload.type) = ""
                       THEN /\ tresp' = ErrorResponse("BadRequest")
                            /\ tpc' = "done"
                       ELSE /\ tpc' = "write"
                            /\ UNCHANGED tresp
                    /\ UNCHANGED <<db, videoThumbnails>>
    /\ UNCHANGED <<treq, disk, s3, policy, videoVars>>

\* thumbnails.ts 60-72
T_Write(outcome, ok) ==
    /\ tpc = "write"
    /\ disk' = IF outcome = "failed no file" THEN disk ELSE disk \cup {thumbFilePath}
    /\ IF outcome = "ok"
       THEN T_Publish(tVideo, ok)
       ELSE /\ tresp' = ErrorResponse("write failed")
            /\ tpc' = "done"
            /\ UNCHANGED <<tVideo, db>>
    /\ UNCHANGED <<treq, s3, videoThumbnails, policy, videoVars>>

(***************************************************************************)
(* The system: one video record owned by user A, one upload of each kind.  *)
(***************************************************************************)
Init ==
    /\ db = {[id |-> "v1", userID |-> "A", videoURL |-> NoPath, thumbnailURL |-> NoPath]}
    /\ disk = {}
    /\ s3 = {}
    /\ videoThumbnails = {}
    /\ policy \in Policies
    /\ vpc = "idle"
    /\ vreq = NoReq
    /\ vVideo = NoVideo
    /\ processedFilePath = NoPath
    /\ probe = NoProbe
    /\ aspectRatio = None
    /\ verr = None
    /\ vresp = NoResp
    /\ vlog = <<>>
    /\ tryError = None
    /\ removed = <<>>
    /\ created = {}
    /\ tpc = "idle"
    /\ treq = NoReq
    /\ tVideo = NoVideo
    /\ tresp = NoResp

\* the stream dimensions ffprobe reports
Dims == {JNum(1920), JNum(1080)}

WideDims ==
    {JNum(n) : n \in {-1, 0, 9, 16, 217, 233, 400, 450, 480, 640, 791, 809, 1080, 1920}}
    \cup {JNull, JHuge, JMissing}

VideoNext(dims) ==
    \/ \E req \in VideoRequests : V_Start(req)
    \/ V_Validate
    \/ \E outcome \in WriteOutcomes : V_Stage(outcome)
    \/ \E out \in RemuxOutcomes : V_Remux(out)
    \/ \E p \in ProbeOutcomes(dims) : V_Probe(p)
    \/ \E ok \in BOOLEAN : V_S3Write(ok)
    \/ \E ok \in BOOLEAN : V_Update(ok)
    \/ V_RmTemp
    \/ V_RmProcessed
    \/ V_Return

ThumbNext ==
    \/ \E req \in ThumbRequests : T_Start(req)
    \/ T_Validate
    \/ \E ok \in BOOLEAN : T_Resolve(ok)
    \/ \E outcome \in WriteOutcomes, ok \in BOOLEAN : T_Write(outcome, ok)

Next == VideoNext(Dims) \/ ThumbNext

Spec == Init /\ [][Next]_vars

\* the video upload alone, over a wide range of probed dimensions
NextVideo == VideoNext(WideDims)

SpecVideo == Init /\ [][NextVideo]_vars


(***************************************************************************)
(* Properties.                                                             *)
(***************************************************************************)
\* the stages of vlog that ran, in order
Stages(log) == [i \in DOMAIN log |-> log[i][1]]

Ran(stage) == \E i \in DOMAIN vlog : vlog[i][1] = stage

Succeeded(stage) == \E i \in DOMAIN vlog : vlog[i] = <<stage, TRUE>>

Failed(stage) == \E i \in DOMAIN vlog : vlog[i] = <<stage, FALSE>>

Count(seq, x) == Cardinality({i \in DOMAIN seq : seq[i] = x})

IsPrefix(a, b) == Len(a) <= Len(b) /\ \A i \in DOMAIN a : a[i] = b[i]

Pipeline == <<"write", "remux", "probe", "s3", "update">>

PipelinePart(log) == SelectSeq(Stages(log), LAMBDA st : st \in {Pipeline[i] : i \in DOMAIN Pipeline})

\* C1: an invocation of handlerUploadVideo writes at most one object to
\* storage, calls updateVideo only after that write has succeeded, and leaves
\* the persisted videoURL as it was when remux, probe or the storage write fails.
C1_UrlOnlyAfterStore ==
    /\ Cardinality(s3) <= 1
    /\ Count(Stages(vlog), "s3") <= 1
    /\ Ran("update") => Succeeded("s3") /\ s3 = {s3Key}
    /\ getVideo(db, "v1").videoURL # NoPath => Succeeded("s3") /\ Succeeded("update")
    /\ Failed("remux") \/ Failed("probe") \/ Failed("s3") => getVideo(db, "v1").videoURL = NoPath

C1_Witness ==
    /\ vpc = "done"
    /\ vresp.status = 200
    /\ s3 = {s3Key}
    /\ getVideo(db, "v1").videoURL = videoURL

\* C2: when an invocation that began staging has returned or thrown, every
\* temporary file it created is gone from the scratch directory and was
\* removed exactly once.
C2_TempFilesRemovedOnce ==
    vpc = "done" /\ Ran("write") =>
        \A p \in created : p \notin disk /\ Count(removed, p) = 1

\* C3: when ffmpeg exits non-zero the request fails with status 500 and neither
\* the staged file nor the '.processed' output is left on disk.
C3_RemuxFailureLeavesNothing ==
    vpc = "done" /\ Failed("remux") =>
        /\ vresp.status = 500
        /\ tempFilePath \notin disk
        /\ outputFilePath(tempFilePath) \notin disk

\* C4: when a stage inside the try block fails, the cleanup runs and the error
\* the caller gets is the one that stage threw.
C4_CleanupKeepsError ==
    vpc = "done" /\ tryError # None => Ran("rm temp") /\ vresp.error = tryError

\* a request of an authenticated user for an existing video of another user
TargetsForeignVideo(req) ==
    /\ req.token \in Users
    /\ \E row \in db : row.id = req.videoId /\ row.userID # req.token

\* C5: an upload by an authenticated user to a video of another user is
\* answered Forbidden by the video handler and by the thumbnail handler,
\* whatever the payload.
C5_ForeignUploadForbidden ==
    /\ vpc = "done" /\ TargetsForeignVideo(vreq) => vresp.error = "Forbidden"
    /\ tpc = "done" /\ TargetsForeignVideo(treq) => tresp.error = "Forbidden"

\* the payloads the video handler must refuse
InvalidVideoPayload(p) ==
    \/ p.kind # "file"
    \/ p.size > 1073741824
    \/ p.type # <<"video", "mp4">>

\* C6: a video upload by the owner whose payload is absent, not a file, larger
\* than 1 GiB or not 'video/mp4' is answered BadRequest, and the invocation
\* runs no stage: no temp file, no subprocess, no stored object, no update.
C6_ValidationBeforeEffects ==
    vpc # "idle" /\ CheckRequest(vreq, db) = None /\ InvalidVideoPayload(vreq.payload) =>
        /\ vpc \in {"formData", "done"}
        /\ vpc = "done" => vresp.status = 400 /\ vresp.error = "BadRequest"
        /\ vlog = <<>>
        /\ created = {}
        /\ tempFilePath \notin disk /\ outputFilePath(tempFilePath) \notin disk
        /\ s3 = {}
        /\ getVideo(db, "v1").videoURL = NoPath

C6_Witness ==
    /\ vpc = "done"
    /\ CheckRequest(vreq, db) = None
    /\ vreq.payload.kind = "file"
    /\ vreq.payload.size > 1073741824
    /\ vresp.error = "BadRequest"

\* the aspect class of width : height in exact arithmetic, the tolerance edge
\* included: |w/h - 16/9| <= 1/50, else |w/h - 9/16| <= 1/50
ExactAbs(n) == IF n < 0 THEN 0 - n ELSE n

ExactAspectClass(w, h) ==
    IF 50 * ExactAbs(9 * w - 16 * h) <= 9 * h THEN "landscape"
    ELSE IF 50 * ExactAbs(16 * w - 9 * h) <= 16 * h THEN "portrait"
    ELSE "other"

\* C7: getVideoAspectRatio answers the exact aspect class of every positive
\* finite width and height, and throws for the others.
C7_AspectClassExact ==
    Ran("probe") /\ probe.exitCode = 0 /\ probe.stdout.parses /\ Len(probe.stdout.streams) = 1 =>
        LET w == probe.stdout.streams[1].width
            h == probe.stdout.streams[1].height
        IN  IF w.t = "number" /\ h.t = "number" /\ w.v > 0 /\ h.v > 0
            THEN aspectRatio = ExactAspectClass(w.v, h.v)
            ELSE tryError = "ffprobe did not return valid width/height"

\* C8: the cleanup does not raise when a file it removes is already absent.
C8_CleanupNeverRaises == verr # "ENOENT"

\* C9: the stages run in the order write, remux, probe, s3, update, each at
\* most once, and none runs after one has failed.
C9_LinearPipeline ==
    /\ IsPrefix(PipelinePart(vlog), Pipeline)
    /\ \A i \in DOMAIN vlog :
          vlog[i][1] \in {Pipeline[k] : k \in DOMAIN Pipeline} /\ ~vlog[i][2] =>
              \A j \in DOMAIN vlog : j > i => vlog[j][1] \in {"rm temp", "rm processed"}

C9_Witness ==
    /\ vpc = "done"
    /\ Failed("probe")
    /\ PipelinePart(vlog) = <<"write", "remux", "probe">>

\* C10: when a video upload and a thumbnail upload to the same video both
\* answer 200, the persisted record carries the videoURL of the one and the
\* thumbnailURL of the other.
C10_NoLostUpdate ==
    vpc = "done" /\ tpc = "done" /\ vresp.status = 200 /\ tresp.status = 200 =>
        /\ getVideo(db, "v1").videoURL = vVideo.videoURL
        /\ getVideo(db, "v1").thumbnailURL = tVideo.thumbnailURL

====
